---------------------------- MODULE Spec2Model ----------------------------
(***************************************************************************)
(* Model of the dashboard chart of StablePay-MerchantDashboard:            *)
(*   src/dashboard/components/dashboard/chart/index.tsx                    *)
(*     generateChartData, getEmptyChartData, DashboardChart                *)
(*   src/unnamed/part_000  (DashboardOverview, the caller)                 *)
(*                                                                         *)
(* Units.  An instant (Date.getTime()) is a whole number of hours since    *)
(* local midnight of 1 January of the first modelled year; the source's    *)
(* milliseconds are all multiples of one hour here.  Money is a whole      *)
(* number of thousandths (mills) and decimal arithmetic is exact; a        *)
(* JavaScript NaN is the record NaN.                                       *)
(***************************************************************************)
EXTENDS Integers, Sequences, FiniteSets

(***************************************************************************)
(* Bounds of the model.                                                    *)
(***************************************************************************)
\* the number of fetches that settle
MaxTx == 2

\* the number of steps before which time passes
MaxPasses == 1

(***************************************************************************)
(* The JavaScript Date built-ins the source calls.                         *)
(***************************************************************************)
\* the year instant 0 lies in
FirstYear == 2023

HoursPerDay == 24

MonthNames ==
  <<"Jan", "Feb", "Mar", "Apr", "May", "Jun",
    "Jul", "Aug", "Sep", "Oct", "Nov", "Dec">>

IsLeap(y) == (y % 4 = 0 /\ y % 100 # 0) \/ y % 400 = 0

\* the number of leap years before year y
LeapsBefore(y) == ((y - 1) \div 4) - ((y - 1) \div 100) + ((y - 1) \div 400)

\* the days of a common year before each of its months
CumDays == <<0, 31, 59, 90, 120, 151, 181, 212, 243, 273, 304, 334, 365>>

\* the days of year y before its month m (m in 0..12)
DaysBeforeMonth(y, m) ==
  CumDays[m + 1] + (IF m >= 2 /\ IsLeap(y) THEN 1 ELSE 0)

\* the days from 1 January of the first modelled year to 1 January of y
DaysBeforeYear(y) ==
  365 * (y - FirstYear) + LeapsBefore(y) - LeapsBefore(FirstYear)

\* MakeDay(year, month, date): month and date may lie outside their ranges
\* and carry over into the neighbouring months and years.
MakeDay(y, m, d) ==
  LET yy == y + (m \div 12)
      mm == m % 12
  IN  DaysBeforeYear(yy) + DaysBeforeMonth(yy, mm) + (d - 1)

\* The calendar fields of a day number (YearFromTime, MonthFromTime,
\* DateFromTime).
DayFields(n) ==
  LET y0 == FirstYear + (n \div 366)
      y == IF n >= DaysBeforeYear(y0 + 1) THEN y0 + 1 ELSE y0
      doy == n - DaysBeforeYear(y)
      m0 == doy \div 31
      m == IF doy >= DaysBeforeMonth(y, m0 + 1) THEN m0 + 1 ELSE m0
  IN  [year |-> y, month |-> m, date |-> doy - DaysBeforeMonth(y, m) + 1]

\* The time zone of the browser: the UTC offset is 0 before the instant
\* zone.at and zone.shift hours from then on (shift = 0: no change of offset,
\* +1: clocks go forward, -1: clocks go back).
UtcOffset(zone, t) == IF t >= zone.at THEN zone.shift ELSE 0

LocalTime(zone, t) == t + UtcOffset(zone, t)

\* UTC(local): a local time that occurs twice, or not at all, is read with
\* the offset in force before the change.
UTC(zone, l) ==
  IF l < zone.at THEN l
  ELSE IF l - zone.shift >= zone.at THEN l - zone.shift
  ELSE l

\* DayFields, tabulated for the days of the modelled years
DayTable == [n \in 0..1600 |-> DayFields(n)]

GetFields(zone, t) == DayTable[LocalTime(zone, t) \div HoursPerDay]

GetFullYear(zone, t) == GetFields(zone, t).year

GetMonth(zone, t) == GetFields(zone, t).month

GetDate(zone, t) == GetFields(zone, t).date

GetHours(zone, t) == LocalTime(zone, t) % HoursPerDay

SetDate(zone, t, d) ==
  LET f == GetFields(zone, t)
  IN  UTC(zone, MakeDay(f.year, f.month, d) * HoursPerDay + GetHours(zone, t))

SetMonth(zone, t, m) ==
  LET f == GetFields(zone, t)
  IN  UTC(zone, MakeDay(f.year, m, f.date) * HoursPerDay + GetHours(zone, t))

\* toLocaleString("en-US", { month: "short" })
MonthShort(zone, t) == MonthNames[GetMonth(zone, t) + 1]

(***************************************************************************)
(* JavaScript numbers and strings of the aggregation.                      *)
(***************************************************************************)
NaN == [nan |-> TRUE, v |-> 0]

Num(v) == [nan |-> FALSE, v |-> v]

\* a + b
Plus(a, b) == IF a.nan \/ b.nan THEN NaN ELSE Num(a.v + b.v)

\* tx.amountSC || "0": an absent or empty amount is replaced by "0".
\* parseFloat of a decimal string is its value, of any other text NaN.
ParseAmount(amountSC) ==
  IF amountSC.kind \in {"absent", "empty"} THEN Num(0)
  ELSE IF amountSC.kind = "decimal" THEN Num(amountSC.mills)
  ELSE NaN

\* RoundRevenue with Math.floor in place of Math.round
RoundRevenueDown(x) == IF x.nan THEN NaN ELSE Num(10 * (x.v \div 10))

\* Math.round(x * 100) / 100, Math.round being floor(x + 0.5)
RoundRevenue(x) == IF x.nan THEN NaN ELSE Num(10 * ((x.v + 5) \div 10))

\* RoundFees taking the rounded revenue in place of data.revenue
RoundFeesOfRounded(x) ==
  IF x.nan THEN NaN
  ELSE Num(10 * (((10 * ((x.v + 5) \div 10)) + 500) \div 1000))

\* Math.round(x * 0.01 * 100) / 100
RoundFees(x) == IF x.nan THEN NaN ELSE Num(10 * ((x.v + 500) \div 1000))

\* `${String(d.getDate()).padStart(2, "0")}/${String(d.getMonth() + 1).padStart(2, "0")}`
\* The label keeps the day and the month number and drops the year.
DateFormat(zone, t) ==
  LET f == GetFields(zone, t) IN <<f.date, f.month + 1>>

(***************************************************************************)
(* groupedData: a JavaScript object whose keys are no array indices, so    *)
(* Object.entries lists them in insertion order: a sequence of entries.    *)
(***************************************************************************)
HasKey(g, key) == \E j \in 1..Len(g) : g[j].key = key

\* groupedData[key] = { revenue: 0, count: 0 }
AddKey(g, key) == Append(g, [key |-> key, revenue |-> Num(0), count |-> 0])

\* if (groupedData[key]) { revenue += parseFloat(...); count += 1 }
Accumulate(g, key, tx) ==
  [j \in 1..Len(g) |->
     IF g[j].key = key
     THEN [g[j] EXCEPT !.revenue = Plus(g[j].revenue, ParseAmount(tx.amountSC)),
                        !.count = g[j].count + 1]
     ELSE g[j]]

DaysToShow(period) == IF period = "week" THEN 7 ELSE 30

MonthsToShow == 12

\* The keys of the loop for (let i = monthsToShow - 1; i >= 0; i--), in the
\* order the loop makes them: date.setMonth(date.getMonth() - i), then
\* date.toLocaleString("en-US", { month: "short" })
MonthKeys(zone, now, n) ==
  [j \in 1..n |->
     MonthShort(zone, SetMonth(zone, now, GetMonth(zone, now) - (n - j)))]

\* The keys of the loop for (let i = daysToShow - 1; i >= 0; i--), in the
\* order the loop makes them: date.setDate(date.getDate() - i), then
\* dateFormat(date)
DayKeys(zone, now, n) ==
  [j \in 1..n |->
     DateFormat(zone, SetDate(zone, now, GetDate(zone, now) - (n - j)))]

\* if (!groupedData[key]) groupedData[key] = { revenue: 0, count: 0 },
\* for each key of the loop in turn
RECURSIVE Skeleton(_, _, _)
Skeleton(keys, g, k) ==
  IF k > Len(keys) THEN g
  ELSE IF HasKey(g, keys[k]) THEN Skeleton(keys, g, k + 1)
  ELSE Skeleton(keys, AddKey(g, keys[k]), k + 1)

\* if (!tx.timestamp) return;
HasTimestamp(tx) == tx.timestamp.kind = "seconds"

\* new Date(Number(tx.timestamp) * 1000)
TxDate(tx) == tx.timestamp.t

MonthDiff(zone, now, txDate) ==
  (GetFullYear(zone, now) - GetFullYear(zone, txDate)) * 12
    + (GetMonth(zone, now) - GetMonth(zone, txDate))

\* Math.floor((now.getTime() - txDate.getTime()) / (1000 * 60 * 60 * 24))
DaysDiff(now, txDate) == (now - txDate) \div HoursPerDay

\* YearStep without the test monthDiff >= 0
YearStepNoLowerBound(zone, now, g, tx) ==
  IF ~HasTimestamp(tx) THEN g
  ELSE LET monthDiff == MonthDiff(zone, now, TxDate(tx))
       IN  IF monthDiff < MonthsToShow
           THEN Accumulate(g, MonthShort(zone, TxDate(tx)), tx)
           ELSE g

\* the body of transactions.forEach of the year branch
YearStep(zone, now, g, tx) ==
  IF ~HasTimestamp(tx) THEN g
  ELSE LET monthDiff == MonthDiff(zone, now, TxDate(tx))
       IN  IF monthDiff >= 0 /\ monthDiff < MonthsToShow
           THEN Accumulate(g, MonthShort(zone, TxDate(tx)), tx)
           ELSE g

\* DayStep with daysDiff <= daysToShow in place of daysDiff < daysToShow
DayStepInclusive(zone, now, g, tx, period) ==
  IF ~HasTimestamp(tx) THEN g
  ELSE LET daysDiff == DaysDiff(now, TxDate(tx))
       IN  IF daysDiff >= 0 /\ daysDiff <= DaysToShow(period)
           THEN Accumulate(g, DateFormat(zone, TxDate(tx)), tx)
           ELSE g

\* the body of transactions.forEach of the week and month branch
DayStep(zone, now, g, tx, period) ==
  IF ~HasTimestamp(tx) THEN g
  ELSE LET daysDiff == DaysDiff(now, TxDate(tx))
       IN  IF daysDiff >= 0 /\ daysDiff < DaysToShow(period)
           THEN Accumulate(g, DateFormat(zone, TxDate(tx)), tx)
           ELSE g

RECURSIVE ForEach(_, _, _, _, _, _)
ForEach(zone, now, g, txs, period, k) ==
  IF k > Len(txs) THEN g
  ELSE ForEach(zone, now,
               IF period = "year" THEN YearStep(zone, now, g, txs[k])
               ELSE DayStep(zone, now, g, txs[k], period),
               txs, period, k + 1)

\* Object.entries(groupedData).map(...)
ToChartData(g) ==
  [j \in 1..Len(g) |->
     [date |-> g[j].key,
      revenue |-> RoundRevenue(g[j].revenue),
      transactions |-> g[j].count,
      fees |-> RoundFees(g[j].revenue)]]

\* for (let i = daysToShow - 1; i >= 0; i--) data.push({ date: ..., revenue: 0,
\* transactions: 0, fees: 0 })
getEmptyChartData(zone, now, period) ==
  LET daysToShow == IF period = "week" THEN 7
                    ELSE IF period = "month" THEN 30 ELSE 12
      keys == IF period = "year" THEN MonthKeys(zone, now, daysToShow)
              ELSE DayKeys(zone, now, daysToShow)
  IN  [j \in 1..daysToShow |->
         [date |-> keys[j], revenue |-> Num(0), transactions |-> 0,
          fees |-> Num(0)]]

generateChartData(zone, now, txs, period) ==
  IF Len(txs) = 0 THEN getEmptyChartData(zone, now, period)
  ELSE LET keys == IF period = "year" THEN MonthKeys(zone, now, MonthsToShow)
                   ELSE DayKeys(zone, now, DaysToShow(period))
       IN  ToChartData(ForEach(zone, now, Skeleton(keys, <<>>, 1), txs, period, 1))

(***************************************************************************)
(* Inputs: the browsers (time zone and wall clock at page load) and the    *)
(* transaction events the fetch hook can deliver.                          *)
(***************************************************************************)
\* The local wall-clock time y-m-d h:00 (m counted from 1) as an instant of
\* a zone whose offset is still 0.
At(y, m, d, h) == MakeDay(y, m - 1, d) * HoursPerDay + h

NoShift == [at |-> 0, shift |-> 0]

Browsers ==
  { \* the 31st of a month, no change of offset
    [zone |-> NoShift, clock |-> At(2025, 3, 31, 10)],
    \* the middle of a month, no change of offset
    [zone |-> NoShift, clock |-> At(2025, 6, 15, 10)],
    \* late evening, clocks went back one hour six days earlier at 02:00
    [zone |-> [at |-> At(2024, 11, 3, 2), shift |-> -1],
     clock |-> At(2024, 11, 9, 23) + 1],
    \* 29 February, clocks go forward one hour nine days later at 02:00
    [zone |-> [at |-> At(2024, 3, 10, 2), shift |-> 1],
     clock |-> At(2024, 2, 29, 10)] }

\* How long before the clock an event happened, in hours (negative: after).
Ages ==
  {-24, -1, 2, 6 * 24 + 20, 7 * 24, 29 * 24 + 20, 30 * 24, 300 * 24, 400 * 24}

Absent == [kind |-> "absent", mills |-> 0]

Decimal(mills) == [kind |-> "decimal", mills |-> mills]

Amounts ==
  { Absent, [kind |-> "empty", mills |-> 0], [kind |-> "text", mills |-> 0],
    Decimal(5000), Decimal(10005), Decimal(50496) }

Seconds(t) == [kind |-> "seconds", t |-> t]

NoTimestamp == [kind |-> "absent", t |-> 0]

\* The events a fetch at instant t can add to the list.
Events(t) ==
  { [timestamp |-> Seconds(t - a), amountSC |-> Decimal(5000)] : a \in Ages }
  \cup { [timestamp |-> Seconds(t - 2), amountSC |-> amt] : amt \in Amounts }
  \cup { [timestamp |-> NoTimestamp, amountSC |-> Decimal(5000)] }

\* A few of them, for the steps of the page.
SomeEvents(t) ==
  { [timestamp |-> Seconds(t - 2), amountSC |-> Decimal(5000)],
    [timestamp |-> Seconds(t - (6 * 24 + 20)), amountSC |-> Decimal(10005)],
    [timestamp |-> NoTimestamp, amountSC |-> Decimal(5000)] }

\* How much time passes between two steps of the page, in hours.
TimeSteps == {0, 24}

Periods == {"week", "month", "year"}

(***************************************************************************)
(* The page: DashboardOverview renders DashboardChart with the list the    *)
(* fetch hook returns.                                                     *)
(***************************************************************************)
VARIABLES
  zone,          \* the browser's time zone
  clock,         \* the wall clock, new Date()
  aged,          \* how often time has passed
  transactions,  \* the list useTransactions returns
  listId,        \* the identity of that array
  loading,       \* the hook's loading flag
  activeTab,     \* React state of DashboardChart
  memo           \* the useMemo slot: its dependency, its value and the
                 \* instant (const now) its value was computed at

vars == <<zone, clock, aged, transactions, listId, loading, activeTab, memo>>

\* the callback of React.useMemo
ComputeChartData(z, now, txs) ==
  [week |-> generateChartData(z, now, txs, "week"),
   month |-> generateChartData(z, now, txs, "month"),
   year |-> generateChartData(z, now, txs, "year")]

\* UseMemo without its dependency array: the callback runs on every render
UseMemoEveryRender(slot, z, now, txs, id) ==
  [deps |-> id, now |-> now, value |-> ComputeChartData(z, now, txs)]

\* React.useMemo(..., [transactions]): the callback runs on the first render
\* and whenever the dependency is another array than at the last render.
UseMemo(slot, z, now, txs, id) ==
  IF slot.deps = id THEN slot
  ELSE [deps |-> id, now |-> now, value |-> ComputeChartData(z, now, txs)]

chartData == memo.value

Init ==
  /\ \E b \in Browsers : zone = b.zone /\ clock = b.clock
  /\ aged = 0
  /\ transactions = <<>>
  /\ listId = 0
  /\ loading = FALSE
  /\ activeTab = "week"
  /\ memo = UseMemo([deps |-> -1], zone, clock, transactions, listId)

\* Time passes before a step.
Pass(dt) ==
  /\ aged + (IF dt = 0 THEN 0 ELSE 1) <= MaxPasses
  /\ aged' = aged + (IF dt = 0 THEN 0 ELSE 1)
  /\ clock' = clock + dt
  /\ UNCHANGED zone

\* The hook starts a fetch: the parent renders again with the same array.
StartFetch(dt) ==
  /\ ~loading
  /\ listId < MaxTx
  /\ Pass(dt)
  /\ loading' = TRUE
  /\ UNCHANGED <<transactions, listId, activeTab>>
  /\ memo' = UseMemo(memo, zone, clock', transactions, listId)

\* The fetch settles with a new array holding one more event.
FetchMore ==
  /\ loading
  /\ \E e \in SomeEvents(clock) : transactions' = Append(transactions, e)
  /\ listId' = listId + 1
  /\ loading' = FALSE
  /\ UNCHANGED <<zone, clock, aged, activeTab>>
  /\ memo' = UseMemo(memo, zone, clock, transactions', listId')

\* The fetch settles with a new array holding the same events.
FetchSame ==
  /\ loading
  /\ transactions' = transactions
  /\ listId' = listId + 1
  /\ loading' = FALSE
  /\ UNCHANGED <<zone, clock, aged, activeTab>>
  /\ memo' = UseMemo(memo, zone, clock, transactions', listId')

\* handleTabChange(value), then the render setActiveTab causes
HandleTabChange(value, dt) ==
  /\ Pass(dt)
  /\ activeTab' = IF value \in Periods THEN value ELSE activeTab
  /\ UNCHANGED <<transactions, listId, loading>>
  /\ memo' = UseMemo(memo, zone, clock', transactions, listId)

Next ==
  \/ \E dt \in TimeSteps : StartFetch(dt)
  \/ FetchMore
  \/ FetchSame
  \/ \E value \in Periods \cup {"day"}, dt \in TimeSteps :
       HandleTabChange(value, dt)

Spec == Init /\ [][Next]_vars

(***************************************************************************)
(* The aggregation alone: the page is rendered with one list after the     *)
(* other, each holding one more event, and generateChartData is applied to *)
(* each list at the instant the browser was opened.                        *)
(***************************************************************************)
Deliver ==
  /\ listId < MaxTx
  /\ \E e \in Events(clock) : transactions' = Append(transactions, e)
  /\ listId' = listId + 1
  /\ UNCHANGED <<zone, clock, aged, loading, activeTab>>
  /\ memo' = UseMemo(memo, zone, clock, transactions', listId')

SeriesSpec == Init /\ [][Deliver]_vars

(***************************************************************************)
(* Vocabulary of the properties.                                           *)
(***************************************************************************)
\* const now of the computation that filled the useMemo slot
now == memo.now

WindowSize(period) ==
  IF period = "week" THEN 7 ELSE IF period = "month" THEN 30 ELSE 12

\* the list without its k-th event
Without(txs, k) ==
  [j \in 1..(Len(txs) - 1) |-> IF j < k THEN txs[j] ELSE txs[j + 1]]

\* what the bucket labelled label holds in a series (zero if it has none)
BucketOf(series, label) ==
  IF \E i \in 1..Len(series) : series[i].date = label
  THEN LET i == CHOOSE i \in 1..Len(series) : series[i].date = label
       IN  [revenue |-> series[i].revenue, transactions |-> series[i].transactions]
  ELSE [revenue |-> Num(0), transactions |-> 0]

\* The buckets of the cached series of a period that the k-th event
\* contributes to: those that hold something else once the event is taken
\* out of the list.
ContributesTo(period, k) ==
  LET rest == generateChartData(zone, now, Without(transactions, k), period)
  IN  { j \in 1..Len(chartData[period]) :
          BucketOf(rest, chartData[period][j].date)
            # [revenue |-> chartData[period][j].revenue,
               transactions |-> chartData[period][j].transactions] }

\* The window test and the key of each event, as section 4.1 of the
\* specification states them.
MatchInfo(period) ==
  [k \in 1..Len(transactions) |->
     LET tx == transactions[k]
     IN  IF ~HasTimestamp(tx) THEN [in |-> FALSE, key |-> <<>>]
         ELSE IF period = "year"
         THEN [in |-> MonthDiff(zone, now, TxDate(tx)) \in 0..11,
               key |-> MonthShort(zone, TxDate(tx))]
         ELSE [in |-> DaysDiff(now, TxDate(tx)) \in 0..(WindowSize(period) - 1),
               key |-> DateFormat(zone, TxDate(tx))]]

Matched(info, label) ==
  { k \in DOMAIN info : info[k].in /\ info[k].key = label }

Malformed(k) == transactions[k].amountSC.kind # "decimal"

IsText(k) == transactions[k].amountSC.kind = "text"

\* the sum, in mills, of the decimal amounts of the events of S
RECURSIVE SumMills(_)
SumMills(S) ==
  IF S = {} THEN 0
  ELSE LET k == CHOOSE k \in S : TRUE
       IN  (IF Malformed(k) THEN 0 ELSE transactions[k].amountSC.mills)
             + SumMills(S \ {k})

\* x mills rounded to whole cents, halves up, in mills
Cents(x) == 10 * ((x + 5) \div 10)

\* one hundredth of x mills rounded to whole cents, halves up, in mills
CentsOfPercent(x) == 10 * ((x + 500) \div 1000)

(***************************************************************************)
(* C1.  For every reference instant now (days 29, 30 and 31 of a month     *)
(* included) and every event list, empty or not, the series of a period    *)
(* has exactly 7 buckets for week, 30 for month and 12 for year.           *)
(***************************************************************************)
C1_FixedCardinality ==
  \A period \in Periods : Len(chartData[period]) = WindowSize(period)

(***************************************************************************)
(* C5.  For a fixed now and period, the series of the empty list and the   *)
(* series of any other list have the same shape: as many buckets and the   *)
(* same label at every position.                                           *)
(***************************************************************************)
C5_SameShapeAsEmpty ==
  \A period \in Periods :
    LET empty == generateChartData(zone, now, <<>>, period)
    IN  /\ Len(chartData[period]) = Len(empty)
        /\ \A j \in 1..Len(empty) : chartData[period][j].date = empty[j].date

\* the label of the day, or the month, that lies back steps before now
LabelBefore(period, back) ==
  IF period = "year"
  THEN MonthNames[((GetMonth(zone, now) - back) % 12) + 1]
  ELSE LET f == DayTable[(LocalTime(zone, now) \div HoursPerDay) - back]
       IN  <<f.date, f.month + 1>>

ListPermutations(n) ==
  { f \in [1..n -> 1..n] : \A a, b \in 1..n : f[a] = f[b] => a = b }

(***************************************************************************)
(* C6.  The series is ordered oldest bucket first: bucket i (from 0) is    *)
(* the day, or the month, that lies bucketCount - 1 - i steps before now;  *)
(* and every permutation of the event list yields the same series.         *)
(***************************************************************************)
C6_OldestFirstAnyOrder ==
  \A period \in Periods :
    /\ Len(chartData[period]) = WindowSize(period)
    /\ \A j \in 1..Len(chartData[period]) :
         chartData[period][j].date
           = LabelBefore(period, WindowSize(period) - j)
    /\ \A f \in ListPermutations(Len(transactions)) :
         generateChartData(zone, now,
                           [k \in 1..Len(transactions) |-> transactions[f[k]]],
                           period)
           = chartData[period]

DailyPeriods == {"week", "month"}

\* the events of the list the claim is about: those with a timestamp whose
\* whole-day difference from now is diff
AtDayDiff(diff) ==
  { k \in 1..Len(transactions) :
      /\ HasTimestamp(transactions[k])
      /\ DaysDiff(now, TxDate(transactions[k])) = diff }

(***************************************************************************)
(* C2.  For week and month (windowDays 7 and 30), for every now and every  *)
(* time of day of the event: an event whose whole-day difference from now  *)
(* is windowDays contributes to no bucket, and one whose whole-day         *)
(* difference is windowDays - 1 contributes to exactly one bucket, the     *)
(* oldest (first) of the series.                                           *)
(***************************************************************************)
C2_WindowEdgeOldestBucket ==
  \A period \in DailyPeriods :
    /\ \A k \in AtDayDiff(WindowSize(period)) :
         ContributesTo(period, k) = {}
    /\ \A k \in AtDayDiff(WindowSize(period) - 1) :
         ContributesTo(period, k) = {1}

\* C2 as amended: an event whose whole-day difference is windowDays
\* contributes to no bucket; one whose whole-day difference is
\* windowDays - 1 contributes to the bucket labelled with its own local
\* DD/MM when the series has such a bucket, and to no bucket when it has
\* none (its local calendar day is older than the oldest bucket's).
C2_WindowEdgeByCalendarDay ==
  \A period \in DailyPeriods :
    /\ \A k \in AtDayDiff(WindowSize(period)) :
         ContributesTo(period, k) = {}
    /\ \A k \in AtDayDiff(WindowSize(period) - 1) :
         ContributesTo(period, k)
           = { j \in 1..Len(chartData[period]) :
                 chartData[period][j].date
                   = DateFormat(zone, TxDate(transactions[k])) }

\* Both cases of C2 have happened for the week: an event at whole-day
\* difference 7, one at 6 that is in the oldest bucket.
C2_Witness ==
  /\ AtDayDiff(7) # {}
  /\ \E k \in AtDayDiff(6) : ContributesTo("week", k) = {1}

\* the events of the list that are later than now
Future ==
  { k \in 1..Len(transactions) :
      HasTimestamp(transactions[k]) /\ TxDate(transactions[k]) > now }

(***************************************************************************)
(* C10.  For every period, an event whose timestamp is strictly later than *)
(* now contributes to no bucket: it changes neither the revenue nor the    *)
(* transaction count of any bucket.                                        *)
(***************************************************************************)
C10_FutureEventsDropped ==
  \A period \in Periods : \A k \in Future : ContributesTo(period, k) = {}

\* C10 as amended: an event later than now contributes to no bucket of the
\* week and month series; it contributes to no bucket of the year series
\* when it lies in a later calendar month than now, and to the newest (last)
\* bucket of the year series when it lies in the calendar month of now.
C10_FutureEventsDroppedByMonth ==
  \A k \in Future :
    /\ \A period \in DailyPeriods : ContributesTo(period, k) = {}
    /\ MonthDiff(zone, now, TxDate(transactions[k])) < 0 =>
         ContributesTo("year", k) = {}
    /\ MonthDiff(zone, now, TxDate(transactions[k])) = 0 =>
         ContributesTo("year", k) = {Len(chartData.year)}

\* Both cases of C10 have happened: a later event in the month of now and
\* one in a later month.
C10_Witness ==
  /\ \E k \in Future : MonthDiff(zone, now, TxDate(transactions[k])) = 0
  /\ \E k \in Future : MonthDiff(zone, now, TxDate(transactions[k])) < 0

C4_MalformedAmountAddsZero ==
  \A period \in Periods :
    LET info == MatchInfo(period)
    IN  \A j \in 1..Len(chartData[period]) :
          LET b == chartData[period][j]
              M == Matched(info, b.date)
          IN  (\E k \in M : Malformed(k)) =>
                /\ b.transactions = Cardinality(M)
                /\ b.revenue = Num(Cents(SumMills(M)))

\* the events of M carry exactly the amounts 10.005 and 5.00, once each
TenAndFive(M) ==
  /\ Cardinality(M) = 2
  /\ \E a, c \in M :
       /\ transactions[a].amountSC = Decimal(10005)
       /\ transactions[c].amountSC = Decimal(5000)

C9_WeekIsTailOfMonth ==
  Len(transactions) > 0 =>
    /\ Len(chartData.week) = 7
    /\ Len(chartData.month) = 30
    /\ \A j \in 1..7 : chartData.week[j] = chartData.month[23 + j]

(***************************************************************************)
(* C7.  After any sequence of tab switches, renders and replacements of    *)
(* the list, the three cached series are recomputed only by a step that    *)
(* changes the identity of the transactions list; a tab switch or a render *)
(* with the same list leaves all three unchanged, and a tab switch changes *)
(* at most the active tab.                                                 *)
(***************************************************************************)
C7_RecomputedOnlyOnNewList ==
  [][ /\ memo' # memo => listId' # listId
      /\ listId' = listId => chartData' = chartData
      /\ activeTab' # activeTab =>
           UNCHANGED <<memo, transactions, listId, loading>> ]_vars

\* The chart has been rendered on another tab, with the list it had, at a
\* time at which computing the series again would give other series.
C7_Witness ==
  /\ activeTab # "week"
  /\ Len(transactions) > 0
  /\ clock # now
  /\ chartData # ComputeChartData(zone, clock, transactions)

=============================================================================
